---------------------------- MODULE Spec2Model ----------------------------
(***************************************************************************)
(* A model of the topic explorer: the navigation history kept by App, the  *)
(* cancellable fetch cycle its effect starts for every new current topic,  *)
(* the two backend requests of geminiService, and the link pass of the     *)
(* interactive text renderer that feeds the shared used-URL set.           *)
(*                                                                         *)
(* A JavaScript string is a sequence of characters, each a string of one   *)
(* character (or, for a character outside ASCII, its code point).  A value *)
(* that may be null is a sequence of length 0 (null) or 1 (the value).     *)
(***************************************************************************)
EXTENDS Integers, Sequences, FiniteSets, TLC

VARIABLES
  history,         \* App: useState<string[]>([])
  historyIndex,    \* App: useState<number>(-1)
  currentTopic,    \* App: useState<string>('')
  explanation,     \* App: useState<string>('')
  suggestion,      \* App: useState<string>('')
  links,           \* App: useState<Link[]>([])
  isLoading,       \* App: useState<boolean>(false)
  error,           \* App: useState<string | null>(null)
  asciiArt,        \* App: useState<AsciiArtData | null>(null)
  generationTime,  \* App: useState<number | null>(null)
  usedLinks,       \* App: useState<Set<string>>(new Set())
  apiKey,          \* process.env.API_KEY is set
  cycles,          \* the effect closures whose requests are still in flight,
                   \* oldest first; the uncancelled one, if any, is the last
  outcome,         \* history variable: what the two promises of the current
                   \* closure have settled with so far
  last,            \* history variable: the operation that made the last step
  renders          \* history variable: what the two ContentDisplay panes
                   \* returned in each render pass of the last step

vars == << history, historyIndex, currentTopic, explanation, suggestion, links,
           isLoading, error, asciiArt, generationTime, usedLinks, apiKey,
           cycles, outcome, last, renders >>

navVars == << history, historyIndex, currentTopic >>

displayVars == << explanation, suggestion, links, isLoading, error, asciiArt,
                  generationTime, usedLinks >>

-----------------------------------------------------------------------------
(* Bounds of the model *)

\* the longest history a push may build
MaxHistory == 3

\* the most fetch cycles that may have requests in flight at once
MaxCycles == 2

-----------------------------------------------------------------------------
(* Strings *)

Null == << >>

Some(v) == << v >>

EmptyString == << >>

\* the characters String.prototype.trim and the regular expression \s remove
Whitespace == { " ", "\n" }

UpperCaseLetters ==
  << "A", "B", "C", "D", "E", "F", "G", "H", "I", "J", "K", "L", "M",
     "N", "O", "P", "Q", "R", "S", "T", "U", "V", "W", "X", "Y", "Z" >>

LowerCaseLetters ==
  << "a", "b", "c", "d", "e", "f", "g", "h", "i", "j", "k", "l", "m",
     "n", "o", "p", "q", "r", "s", "t", "u", "v", "w", "x", "y", "z" >>

\* String.prototype.toLowerCase on one character
LowerChar(c) ==
  IF \E i \in 1..26 : UpperCaseLetters[i] = c
    THEN LowerCaseLetters[CHOOSE i \in 1..26 : UpperCaseLetters[i] = c]
    ELSE c

toLowerCase(s) == [ i \in 1..Len(s) |-> LowerChar(s[i]) ]

RECURSIVE trimStart(_)
trimStart(s) ==
  IF s # << >> /\ Head(s) \in Whitespace THEN trimStart(Tail(s)) ELSE s

RECURSIVE trimEnd(_)
trimEnd(s) ==
  IF s # << >> /\ s[Len(s)] \in Whitespace
    THEN trimEnd(SubSeq(s, 1, Len(s) - 1))
    ELSE s

trim(s) == trimEnd(trimStart(s))

\* String.prototype.substring(from, to) with 0-based offsets, from <= to
substring(s, from, to) ==
  SubSeq(s, (IF from > Len(s) THEN Len(s) ELSE from) + 1,
            IF to > Len(s) THEN Len(s) ELSE to)

\* String.prototype.repeat
repeat(c, n) == [ i \in 1..n |-> c ]

-----------------------------------------------------------------------------
(* The interactive text renderer: InteractiveContent, renderInteractiveWords *)

STOP_WORDS ==
  { << "a" >>,
    << "a", "b", "o", "u", "t" >>,
    << "a", "n" >>,
    << "a", "n", "d" >>,
    << "a", "r", "e" >>,
    << "a", "s" >>,
    << "a", "t" >>,
    << "b", "e" >>,
    << "b", "y" >>,
    << "f", "o", "r" >>,
    << "f", "r", "o", "m" >>,
    << "h", "o", "w" >>,
    << "i" >>,
    << "i", "n" >>,
    << "i", "s" >>,
    << "i", "t" >>,
    << "o", "f" >>,
    << "o", "n" >>,
    << "o", "r" >>,
    << "t", "h", "a", "t" >>,
    << "t", "h", "e" >>,
    << "t", "h", "i", "s" >>,
    << "t", "o" >>,
    << "w", "a", "s" >>,
    << "w", "h", "a", "t" >>,
    << "w", "h", "e", "n" >>,
    << "w", "h", "e", "r", "e" >>,
    << "w", "h", "o" >>,
    << "w", "i", "l", "l" >>,
    << "w", "i", "t", "h" >> }

\* the characters of the class [.,!?;:]
Punctuation == { ".", ",", "!", "?", ";", ":" }

\* indexOf returning the offset of the last occurrence
indexOfLast(part, title) ==
  LET hits == { i \in 0..(Len(part) - Len(title)) :
                  SubSeq(part, i + 1, i + Len(title)) = title }
  IN  IF hits = {} THEN -1 ELSE CHOOSE i \in hits : \A j \in hits : i >= j

\* String.prototype.indexOf: the 0-based offset of the first occurrence of
\* title in part, or -1
indexOf(part, title) ==
  LET hits == { i \in 0..(Len(part) - Len(title)) :
                  SubSeq(part, i + 1, i + Len(title)) = title }
  IN  IF hits = {} THEN -1 ELSE CHOOSE i \in hits : \A j \in hits : i <= j

\* a piece of contentParts: a string, or the <a> element of a link
TextPart(s) == [ kind |-> "text", text |-> s, url |-> "" ]

AnchorPart(link) == [ kind |-> "a", text |-> link.title, url |-> link.url ]

\* Array.prototype.sort is stable: a link goes after every link whose title
\* is at least as long
RECURSIVE InsertByTitleLength(_, _)
InsertByTitleLength(sorted, link) ==
  IF sorted = << >> THEN << link >>
  ELSE IF Len(Head(sorted).title) >= Len(link.title)
    THEN << Head(sorted) >> \o InsertByTitleLength(Tail(sorted), link)
    ELSE << link >> \o sorted

\* sortedLinks without the sort
sortedLinksUnsorted(ls) == ls

RECURSIVE sortedLinks(_)
sortedLinks(ls) ==
  IF ls = << >> THEN << >>
  ELSE InsertByTitleLength(sortedLinks(SubSeq(ls, 1, Len(ls) - 1)), ls[Len(ls)])

\* SplitAround taking the text after the title from one character too far
SplitAroundSkipsOne(part, link) ==
  LET index  == indexOf(part.text, link.title)
      before == substring(part.text, 0, index)
      after  == substring(part.text, index + Len(link.title) + 1,
                          Len(part.text))
  IN  (IF before # EmptyString THEN << TextPart(before) >> ELSE << >>)
      \o << AnchorPart(link) >>
      \o (IF after # EmptyString THEN << TextPart(after) >> ELSE << >>)

\* the pieces that replace the string part in which the link is placed
SplitAround(part, link) ==
  LET index  == indexOf(part.text, link.title)
      before == substring(part.text, 0, index)
      after  == substring(part.text, index + Len(link.title), Len(part.text))
  IN  (IF before # EmptyString THEN << TextPart(before) >> ELSE << >>)
      \o << AnchorPart(link) >>
      \o (IF after # EmptyString THEN << TextPart(after) >> ELSE << >>)

\* the positions of the string parts that contain the link's title
PartsWithTitle(parts, link) ==
  { k \in 1..Len(parts) :
      parts[k].kind = "text" /\ indexOf(parts[k].text, link.title) # -1 }

\* one iteration of the first pass: the flatMap with its linkPlaced flag
PlaceLink(parts, link) ==
  LET found == PartsWithTitle(parts, link)
  IN  IF found = {} THEN parts
      ELSE LET k == CHOOSE i \in found : \A j \in found : i <= j
           IN  SubSeq(parts, 1, k - 1) \o SplitAround(parts[k], link)
               \o SubSeq(parts, k + 1, Len(parts))

\* First pass over the sorted links from position i on: the content parts and
\* the onLinkUsed calls made, in order.  used is the usedLinks prop.
RECURSIVE EmbedLinks(_, _, _, _, _)
EmbedLinks(parts, calls, sorted, used, i) ==
  IF i > Len(sorted) THEN [ parts |-> parts, calls |-> calls ]
  ELSE LET link == sorted[i]
       IN  IF link.url \in used
             THEN EmbedLinks(parts, calls, sorted, used, i + 1)
           ELSE IF PartsWithTitle(parts, link) = {}
             THEN EmbedLinks(parts, calls, sorted, used, i + 1)
           ELSE EmbedLinks(PlaceLink(parts, link), Append(calls, link.url),
                           sorted, used, i + 1)

FirstPass(content, ls, used) ==
  EmbedLinks(<< TextPart(content) >>, << >>, sortedLinks(ls), used, 1)

\* the length of the longest prefix of s made of whitespace (ws) or of none
RECURSIVE RunLength(_, _)
RunLength(s, ws) ==
  IF s = << >> \/ (Head(s) \in Whitespace) # ws THEN 0
  ELSE 1 + RunLength(Tail(s), ws)

RECURSIVE Runs(_)
Runs(s) ==
  IF s = << >> THEN << >>
  ELSE LET k == RunLength(s, Head(s) \in Whitespace)
       IN  << SubSeq(s, 1, k) >> \o Runs(SubSeq(s, k + 1, Len(s)))

\* text.split(/(\s+)/): the whitespace runs are kept, and a text that begins
\* or ends with whitespace yields an empty string there
splitOnWhitespace(text) ==
  IF text = EmptyString THEN << EmptyString >>
  ELSE (IF Head(text) \in Whitespace THEN << EmptyString >> ELSE << >>)
       \o Runs(text)
       \o (IF text[Len(text)] \in Whitespace THEN << EmptyString >> ELSE << >>)

\* trailingPunctuation for the regular expression /[.,!?;:]$/, without the +
trailingPunctuationOne(part) ==
  IF part # << >> /\ part[Len(part)] \in Punctuation
    THEN << part[Len(part)] >>
    ELSE << >>

\* the match of /[.,!?;:]+$/ in part, or ''
RECURSIVE trailingPunctuation(_)
trailingPunctuation(part) ==
  IF part # << >> /\ part[Len(part)] \in Punctuation
    THEN Append(trailingPunctuation(SubSeq(part, 1, Len(part) - 1)),
                part[Len(part)])
    ELSE << >>

\* a rendered element: plain text, a <button> around a word, or an <a>
Plain(s) == [ kind |-> "plain", text |-> s, url |-> "" ]

Button(word) == [ kind |-> "button", text |-> word, url |-> "" ]

\* renderPart looking the word up as it is written, not in lower case
renderPartCaseSensitive(part) ==
  IF trim(part) = EmptyString THEN << Plain(part) >>
  ELSE LET punctuation == trailingPunctuation(part)
           word == SubSeq(part, 1, Len(part) - Len(punctuation))
       IN  IF word \in STOP_WORDS \/ word = EmptyString
             THEN << Plain(part) >>
             ELSE << Button(word), Plain(punctuation) >>

\* the elements renderInteractiveWords pushes for one part of the split
renderPart(part) ==
  IF trim(part) = EmptyString THEN << Plain(part) >>
  ELSE LET punctuation == trailingPunctuation(part)
           word == SubSeq(part, 1, Len(part) - Len(punctuation))
       IN  IF toLowerCase(word) \in STOP_WORDS \/ word = EmptyString
             THEN << Plain(part) >>
             ELSE << Button(word), Plain(punctuation) >>

\* the elements pushed for every part in turn, as one array
RECURSIVE Flattened(_)
Flattened(arrays) ==
  IF arrays = << >> THEN << >> ELSE Head(arrays) \o Flattened(Tail(arrays))

renderInteractiveWords(text) ==
  LET parts == splitOnWhitespace(text)
  IN  Flattened([ index \in 1..Len(parts) |-> renderPart(parts[index]) ])

\* Second pass: the string parts become words, the <a> elements stay
renderContentPart(part) ==
  IF part.kind = "text" THEN renderInteractiveWords(part.text) ELSE << part >>

\* the elements of one InteractiveContent, and the onLinkUsed calls it makes
InteractiveContent(content, ls, used) ==
  LET first == FirstPass(content, ls, used)
  IN  [ elements |-> Flattened([ index \in 1..Len(first.parts) |->
                                   renderContentPart(first.parts[index]) ]),
        calls |-> first.calls ]

\* the words whose buttons a rendering shows
ButtonWords(elements) ==
  { elements[i].text : i \in { j \in 1..Len(elements) :
                                 elements[j].kind = "button" } }

-----------------------------------------------------------------------------
(* The navigation history: changeTopic, handlePrevious, handleNext *)

Nav == [ history |-> history, historyIndex |-> historyIndex,
         currentTopic |-> currentTopic ]

\* changeTopic comparing the topics as they are, not in lower case
changeTopicCaseSensitive(nav, newTopic) ==
  LET trimmedTopic == trim(newTopic)
  IN  IF trimmedTopic # EmptyString /\ trimmedTopic # nav.currentTopic
        THEN LET newHistory ==
                   Append(SubSeq(nav.history, 1, nav.historyIndex + 1),
                          trimmedTopic)
             IN  [ history |-> newHistory,
                   historyIndex |-> Len(newHistory) - 1,
                   currentTopic |-> trimmedTopic ]
        ELSE nav

\* changeTopic pushing onto the whole history, without the slice
changeTopicNoTruncate(nav, newTopic) ==
  LET trimmedTopic == trim(newTopic)
  IN  IF trimmedTopic # EmptyString
         /\ toLowerCase(trimmedTopic) # toLowerCase(nav.currentTopic)
        THEN LET newHistory == Append(nav.history, trimmedTopic)
             IN  [ history |-> newHistory,
                   historyIndex |-> Len(newHistory) - 1,
                   currentTopic |-> trimmedTopic ]
        ELSE nav

\* changeTopic making the topic as it was given current, not trimmed
changeTopicUntrimmedTopic(nav, newTopic) ==
  LET trimmedTopic == trim(newTopic)
  IN  IF trimmedTopic # EmptyString
         /\ toLowerCase(trimmedTopic) # toLowerCase(nav.currentTopic)
        THEN LET newHistory ==
                   Append(SubSeq(nav.history, 1, nav.historyIndex + 1),
                          trimmedTopic)
             IN  [ history |-> newHistory,
                   historyIndex |-> Len(newHistory) - 1,
                   currentTopic |-> newTopic ]
        ELSE nav

\* changeTopic without the comparison with the current topic
changeTopicNoSameCheck(nav, newTopic) ==
  LET trimmedTopic == trim(newTopic)
  IN  IF trimmedTopic # EmptyString
        THEN LET newHistory ==
                   Append(SubSeq(nav.history, 1, nav.historyIndex + 1),
                          trimmedTopic)
             IN  [ history |-> newHistory,
                   historyIndex |-> Len(newHistory) - 1,
                   currentTopic |-> trimmedTopic ]
        ELSE nav

changeTopic(nav, newTopic) ==
  LET trimmedTopic == trim(newTopic)
  IN  IF trimmedTopic # EmptyString
         /\ toLowerCase(trimmedTopic) # toLowerCase(nav.currentTopic)
        THEN LET newHistory ==
                   Append(SubSeq(nav.history, 1, nav.historyIndex + 1),
                          trimmedTopic)
             IN  [ history |-> newHistory,
                   historyIndex |-> Len(newHistory) - 1,
                   currentTopic |-> trimmedTopic ]
        ELSE nav

\* handlePrevious with the guard historyIndex >= 0: history[-1] is undefined,
\* which the effect treats like ''
handlePreviousOffByOne(nav) ==
  IF nav.historyIndex >= 0
    THEN LET newIndex == nav.historyIndex - 1
         IN  [ nav EXCEPT !.historyIndex = newIndex,
                          !.currentTopic = IF newIndex >= 0
                                             THEN nav.history[newIndex + 1]
                                             ELSE EmptyString ]
    ELSE nav

\* handlePrevious without its setCurrentTopic
handlePreviousKeepsTopic(nav) ==
  IF nav.historyIndex > 0
    THEN [ nav EXCEPT !.historyIndex = nav.historyIndex - 1 ]
    ELSE nav

handlePrevious(nav) ==
  IF nav.historyIndex > 0
    THEN LET newIndex == nav.historyIndex - 1
         IN  [ nav EXCEPT !.historyIndex = newIndex,
                          !.currentTopic = nav.history[newIndex + 1] ]
    ELSE nav

\* handleNext without its setCurrentTopic
handleNextSkipsTopic(nav) ==
  IF nav.historyIndex < Len(nav.history) - 1
    THEN [ nav EXCEPT !.historyIndex = nav.historyIndex + 1 ]
    ELSE nav

handleNext(nav) ==
  IF nav.historyIndex < Len(nav.history) - 1
    THEN LET newIndex == nav.historyIndex + 1
         IN  [ nav EXCEPT !.historyIndex = newIndex,
                          !.currentTopic = nav.history[newIndex + 1] ]
    ELSE nav

-----------------------------------------------------------------------------
(* The backend requests: getStructuredAnswer, generateAsciiArt *)

maxRetries == 1

\* an Error, by its message: fixed text, the topic quoted in it, the cause
Message(text, topic, detail) ==
  [ text |-> text, topic |-> topic, detail |-> detail ]

IsEmptyMessage(m) ==
  m.text = "" /\ m.topic = EmptyString /\ m.detail = ""

Resolved(v) == [ ok |-> TRUE, value |-> v, message |-> Message("", << >>, "") ]

NoAnswer == [ explanation |-> EmptyString, suggestion |-> EmptyString,
              links |-> << >> ]

NoArt == [ art |-> EmptyString ]

Rejected(none, m) == [ ok |-> FALSE, value |-> none, message |-> m ]

Link(title, url) == [ title |-> title, url |-> url ]

\* what the try block of getStructuredAnswer can meet: generateContent or
\* JSON.parse throws, or the text parses to data
TextResponse(throws, e, s, isArray, ls) ==
  [ throws |-> throws, explanation |-> e, suggestion |-> s,
    linksIsArray |-> isArray, links |-> ls ]

ValidAnswer ==
  TextResponse(FALSE,
    << "t", "h", "e", " ", "x", "." >>,
    << "x", " ", "Y" >>,
    TRUE,
    << Link(<< "x" >>, "u1"), Link(<< "Y" >>, "u2"),
       Link(<< "z" >>, "u3") >>)

TextResponses ==
  { ValidAnswer,
    TextResponse(TRUE, EmptyString, EmptyString, FALSE, << >>),
    TextResponse(FALSE, EmptyString, << "x" >>, TRUE, << >>),
    TextResponse(FALSE, << "x" >>, EmptyString, TRUE, << >>),
    TextResponse(FALSE, << "x" >>, << "Y" >>, FALSE, << >>) }

\* the promise of getStructuredAnswer(topic): hasKey is the API_KEY check made
\* when it was called, resp what the backend did if it was asked
getStructuredAnswer(topic, hasKey, resp) ==
  IF ~hasKey
    THEN Rejected(NoAnswer,
           Message("API_KEY is not configured. Please check your environment variables to continue.",
                   << >>, ""))
  ELSE IF resp.throws
    THEN Rejected(NoAnswer,
           Message("Could not generate content for", topic, "request failed"))
  ELSE IF resp.explanation = EmptyString \/ resp.suggestion = EmptyString
          \/ ~resp.linksIsArray
    THEN Rejected(NoAnswer,
           Message("Could not generate content for", topic,
                   "Invalid response structure received from API."))
  ELSE Resolved([ explanation |-> resp.explanation,
                  suggestion |-> resp.suggestion, links |-> resp.links ])

\* what ai.models.generateContent can do for the art request: the text may be
\* fenced, the (unfenced) text may or may not be wrapped in braces and parse
ArtResponse(throws, braces, parses, isString, art) ==
  [ throws |-> throws, braces |-> braces, parses |-> parses,
    artIsString |-> isString, art |-> art ]

ArtResponses ==
  { ArtResponse(FALSE, TRUE, TRUE, TRUE, << "*", "\n", "*" >>),
    ArtResponse(TRUE, FALSE, FALSE, FALSE, EmptyString),
    ArtResponse(FALSE, FALSE, FALSE, FALSE, EmptyString),
    ArtResponse(FALSE, TRUE, FALSE, FALSE, EmptyString),
    ArtResponse(FALSE, TRUE, TRUE, TRUE, << " ", "\n" >>) }

\* one attempt of generateAsciiArt's loop: the body of its try block
artAttempt(resp) ==
  IF resp.throws
    THEN Rejected(NoArt, Message("request failed", << >>, ""))
  ELSE IF ~resp.braces
    THEN Rejected(NoArt, Message("Response is not a valid JSON object", << >>, ""))
  ELSE IF ~resp.parses
    THEN Rejected(NoArt, Message("JSON.parse failed", << >>, ""))
  ELSE IF ~resp.artIsString \/ Len(trim(resp.art)) = 0
    THEN Rejected(NoArt, Message("Invalid or empty ASCII art in response", << >>, ""))
  ELSE Resolved([ art |-> resp.art ])

-----------------------------------------------------------------------------
(* App: the fallback art and the display state *)

\* the line-drawing characters of the fallback box, each one character
BoxDownRight == "U+250C"

BoxDownLeft == "U+2510"

BoxUpRight == "U+2514"

BoxUpLeft == "U+2518"

BoxHorizontal == "U+2500"

BoxVertical == "U+2502"

\* createFallbackArt keeping 20 characters before the ellipsis
createFallbackArtLongCut(topic) ==
  LET displayableTopic ==
        IF Len(topic) > 20
          THEN substring(topic, 0, 20) \o << ".", ".", "." >>
          ELSE topic
      paddedTopic  == << " " >> \o displayableTopic \o << " " >>
      topBorder    == << BoxDownRight >> \o repeat(BoxHorizontal, Len(paddedTopic)) \o << BoxDownLeft >>
      middle       == << BoxVertical >> \o paddedTopic \o << BoxVertical >>
      bottomBorder == << BoxUpRight >> \o repeat(BoxHorizontal, Len(paddedTopic)) \o << BoxUpLeft >>
  IN  [ art |-> topBorder \o << "\n" >> \o middle \o << "\n" >> \o bottomBorder ]

createFallbackArt(topic) ==
  LET displayableTopic ==
        IF Len(topic) > 20
          THEN substring(topic, 0, 17) \o << ".", ".", "." >>
          ELSE topic
      paddedTopic  == << " " >> \o displayableTopic \o << " " >>
      topBorder    == << BoxDownRight >> \o repeat(BoxHorizontal, Len(paddedTopic)) \o << BoxDownLeft >>
      middle       == << BoxVertical >> \o paddedTopic \o << BoxVertical >>
      bottomBorder == << BoxUpRight >> \o repeat(BoxHorizontal, Len(paddedTopic)) \o << BoxUpLeft >>
  IN  [ art |-> topBorder \o << "\n" >> \o middle \o << "\n" >> \o bottomBorder ]

Display ==
  [ explanation |-> explanation, suggestion |-> suggestion, links |-> links,
    isLoading |-> isLoading, error |-> error, asciiArt |-> asciiArt,
    generationTime |-> generationTime, usedLinks |-> usedLinks ]

SetDisplay(d) ==
  /\ explanation' = d.explanation
  /\ suggestion' = d.suggestion
  /\ links' = d.links
  /\ isLoading' = d.isLoading
  /\ error' = d.error
  /\ asciiArt' = d.asciiArt
  /\ generationTime' = d.generationTime
  /\ usedLinks' = d.usedLinks

\* the panes App shows: both ContentDisplay, the second under a condition
PanesShown(d) ==
  ~d.isLoading /\ d.error = Null /\ d.explanation # EmptyString

\* the onLinkUsed calls of one render of the panes
RenderCalls(d) ==
  LET first  == FirstPass(d.explanation, d.links, d.usedLinks).calls
      second == IF d.suggestion # EmptyString
                  THEN FirstPass(d.suggestion, d.links, d.usedLinks).calls
                  ELSE << >>
  IN  { first[i] : i \in 1..Len(first) } \cup { second[i] : i \in 1..Len(second) }

\* handleLinkUsed for every url of calls
handleLinkUsed(used, calls) == used \cup calls

\* React renders again after every handleLinkUsed that a render caused, until
\* a render makes no call
RECURSIVE Rendered(_)
Rendered(d) ==
  IF ~PanesShown(d) THEN d
  ELSE LET calls == RenderCalls(d)
       IN  IF calls = {} THEN d
           ELSE Rendered([ d EXCEPT !.usedLinks = handleLinkUsed(@, calls) ])

\* what a ContentDisplay with isLoading={false} returns: null without content
NoContent == [ elements |-> << >>, calls |-> << >> ]

ContentDisplay(content, ls, used) ==
  IF content # EmptyString THEN InteractiveContent(content, ls, used)
                           ELSE NoContent

\* one render of App: the explanation pane and the suggestion pane, both
\* given the usedLinks of this render
RenderPass(d) ==
  IF ~PanesShown(d)
    THEN [ explanation |-> NoContent, suggestion |-> NoContent ]
    ELSE [ explanation |-> ContentDisplay(d.explanation, d.links, d.usedLinks),
           suggestion |-> IF d.suggestion # EmptyString
                            THEN ContentDisplay(d.suggestion, d.links,
                                                d.usedLinks)
                            ELSE NoContent ]

\* the renders React makes of the state d, the last one without a call of
\* onLinkUsed
RECURSIVE RenderPasses(_)
RenderPasses(d) ==
  IF ~PanesShown(d) \/ RenderCalls(d) = {} THEN << RenderPass(d) >>
  ELSE << RenderPass(d) >>
       \o RenderPasses([ d EXCEPT !.usedLinks =
                                    handleLinkUsed(@, RenderCalls(d)) ])

\* React renders the state d to its fixpoint
Render(d) ==
  /\ SetDisplay(Rendered(d))
  /\ renders' = RenderPasses(d)

\* the buttons of the panes as they are shown
ClickableWords(d) ==
  IF ~PanesShown(d) THEN {}
  ELSE ButtonWords(InteractiveContent(d.explanation, d.links, d.usedLinks).elements)
       \cup (IF d.suggestion # EmptyString
               THEN ButtonWords(InteractiveContent(d.suggestion, d.links,
                                                   d.usedLinks).elements)
               ELSE {})

-----------------------------------------------------------------------------
(* App: the effect on currentTopic and its fetch cycle *)

\* the closure of one run of the effect: its topic, its isCancelled flag, and
\* its two promises.  A promise is "awaiting" its backend call, "rejected"
\* before any call (no API key), or "done" once its handler has run.
\* NewCycle when the two functions do not look at process.env.API_KEY
NewCycleNoKeyCheck(topic, hasKey) ==
  [ topic |-> topic, isCancelled |-> FALSE,
    art |-> "awaiting", attempt |-> 1, artCalls |-> 1,
    text |-> "awaiting", textCalls |-> 1 ]

NewCycle(topic, hasKey) ==
  [ topic |-> topic, isCancelled |-> FALSE,
    art |-> IF hasKey THEN "awaiting" ELSE "rejected",
    attempt |-> 1,
    artCalls |-> IF hasKey THEN 1 ELSE 0,
    text |-> IF hasKey THEN "awaiting" ELSE "rejected",
    textCalls |-> IF hasKey THEN 1 ELSE 0 ]

\* the effect's cleanup: isCancelled = true in the closure of the last run
EffectCleanup(cs) ==
  [ i \in 1..Len(cs) |->
      IF i = Len(cs) THEN [ cs[i] EXCEPT !.isCancelled = TRUE ] ELSE cs[i] ]

InFlight(c) == c.art # "done" \/ c.text # "done"

\* A cancelled closure with no promise left is garbage.  One with a promise
\* left never reads its topic again (every handler returns at its isCancelled
\* check), so the topic is dropped from it.
Collect(cs) ==
  LET kept == SelectSeq(cs, LAMBDA c : ~c.isCancelled \/ InFlight(c))
  IN  [ i \in 1..Len(kept) |->
          IF kept[i].isCancelled
            THEN [ kept[i] EXCEPT !.topic = EmptyString ]
            ELSE kept[i] ]

\* fetchStart without its setError(null)
fetchStartKeepsError(d) ==
  [ d EXCEPT !.isLoading = TRUE,
             !.explanation = EmptyString, !.suggestion = EmptyString,
             !.links = << >>, !.asciiArt = Null, !.generationTime = Null,
             !.usedLinks = {} ]

\* fetchContentAndArt up to its first await: the initial state of the page
fetchStart(d) ==
  [ d EXCEPT !.isLoading = TRUE, !.error = Null,
             !.explanation = EmptyString, !.suggestion = EmptyString,
             !.links = << >>, !.asciiArt = Null, !.generationTime = Null,
             !.usedLinks = {} ]

\* artHandlers whose .catch reports the failure with setError
artHandlersFailureSetsError(c, d, result) ==
  IF c.isCancelled THEN d
  ELSE IF result.ok THEN [ d EXCEPT !.asciiArt = Some(result.value) ]
  ELSE [ d EXCEPT !.asciiArt = Some(createFallbackArt(c.topic)),
                  !.error = Some(result.message) ]

\* the .then and .catch of the art promise
artHandlers(c, d, result) ==
  IF c.isCancelled THEN d
  ELSE IF result.ok THEN [ d EXCEPT !.asciiArt = Some(result.value) ]
  ELSE [ d EXCEPT !.asciiArt = Some(createFallbackArt(c.topic)) ]

\* the try and catch blocks around the awaited text promise, in a closure
\* that is not cancelled
textTryCatch(d, result) ==
  IF result.ok
    THEN [ d EXCEPT !.explanation = result.value.explanation,
                    !.suggestion = result.value.suggestion,
                    !.links = result.value.links ]
    ELSE [ d EXCEPT !.error = Some(result.message),
                    !.explanation = EmptyString,
                    !.suggestion = EmptyString,
                    !.links = << >> ]

\* textFinally without its setIsLoading(false)
textFinallyKeepsLoading(d, elapsed) ==
  [ d EXCEPT !.generationTime = Some(elapsed) ]

\* textFinally without its setGenerationTime
textFinallyNoTime(d, elapsed) ==
  [ d EXCEPT !.isLoading = FALSE ]

\* the finally block, in a closure that is not cancelled
textFinally(d, elapsed) ==
  [ d EXCEPT !.generationTime = Some(elapsed), !.isLoading = FALSE ]

\* textHandlers without its isCancelled checks
textHandlersUnchecked(c, d, result, elapsed) ==
  textFinally(textTryCatch(d, result), elapsed)

\* textHandlers with the statements of finally at the end of try
textHandlersNoFinally(c, d, result, elapsed) ==
  IF c.isCancelled THEN d
  ELSE IF result.ok THEN textFinally(textTryCatch(d, result), elapsed)
  ELSE textTryCatch(d, result)

\* textHandlers whose catch also resets the art
textHandlersFailureClearsArt(c, d, result, elapsed) ==
  IF c.isCancelled THEN d
  ELSE IF result.ok THEN textFinally(textTryCatch(d, result), elapsed)
  ELSE [ textFinally(textTryCatch(d, result), elapsed)
           EXCEPT !.asciiArt = Null ]

\* what the await of the text promise resumes into: try or catch, then finally
textHandlers(c, d, result, elapsed) ==
  IF c.isCancelled THEN d
  ELSE textFinally(textTryCatch(d, result), elapsed)

\* generateAsciiArt(topic) at the end of attempt number attempt: the promise
\* settles (with the art, or with the error of the last attempt), or the loop
\* goes on to another attempt
generateAsciiArt(hasKey, attempt, resp) ==
  IF ~hasKey
    THEN [ settled |-> TRUE,
           result |-> Rejected(NoArt, Message("API_KEY is not configured.", << >>, "")) ]
  ELSE LET tried == artAttempt(resp)
       IN  IF tried.ok THEN [ settled |-> TRUE, result |-> tried ]
           ELSE IF attempt = maxRetries
             THEN [ settled |-> TRUE,
                    result |-> Rejected(NoArt,
                      Message("Could not generate ASCII art after attempts",
                              << >>, tried.message.text)) ]
           ELSE [ settled |-> FALSE, result |-> tried ]

-----------------------------------------------------------------------------
(* The inputs of the model *)

\* the words of the random button: capitalised, no two equal in lower case
UNIQUE_WORDS == << << "X" >>, << "Y" >> >>

\* what the search bar may submit
SearchInputs ==
  { EmptyString, << " " >>, << " ", "x", " " >>, << "Y", " " >> }

\* endTime - startTime of performance.now(), which never runs backwards
ElapsedTimes == { 0, 7 }

-----------------------------------------------------------------------------
(* App: handleRandom *)

\* the index Array.prototype.findIndex returns for a word of the list
findIndex(word) ==
  LET hits == { i \in 0..(Len(UNIQUE_WORDS) - 1) :
                  toLowerCase(UNIQUE_WORDS[i + 1]) = toLowerCase(word) }
  IN  CHOOSE i \in hits : \A j \in hits : i <= j

\* randomWordFor without the check against the current topic
randomWordForNoSkip(topic, r) == UNIQUE_WORDS[r + 1]

\* the word handleRandom passes to changeTopic when Math.random picks index r
randomWordFor(topic, r) ==
  LET randomWord == UNIQUE_WORDS[r + 1]
  IN  IF toLowerCase(randomWord) = toLowerCase(topic)
        THEN UNIQUE_WORDS[((findIndex(randomWord) + 1) % Len(UNIQUE_WORDS)) + 1]
        ELSE randomWord

\* what handleRandom sets itself before it calls changeTopic
handleRandomReset(d) ==
  [ d EXCEPT !.isLoading = TRUE, !.error = Null,
             !.explanation = EmptyString, !.suggestion = EmptyString,
             !.links = << >>, !.asciiArt = Null ]

-----------------------------------------------------------------------------
(* History variables *)

NoOutcome == [ art |-> Null, text |-> Null ]

\* what a promise of the closure c has settled with
Settled(c, which, what) ==
  IF c.isCancelled THEN outcome ELSE [ outcome EXCEPT ![which] = Some(what) ]

\* The operation of the last step.  arg is the topic given to changeTopic,
\* changed whether the navigation state changed, dropped how many history
\* entries the step removed, wasSet whether the page showed anything before
\* the step; stale, ok and answer describe a settled promise: whether its
\* closure was cancelled, whether it resolved, and with which answer.
LastOp(op, arg, changed, dropped, stale, ok, answer) ==
  [ op |-> op, arg |-> arg, changed |-> changed, dropped |-> dropped,
    wasSet |-> (explanation # EmptyString \/ error # Null \/ asciiArt # Null
                \/ usedLinks # {} \/ generationTime # Null),
    stale |-> stale, ok |-> ok, answer |-> answer ]

LastNav(op, arg, nav) ==
  LastOp(op, arg, nav # Nav,
         IF nav.history # history THEN Len(history) + 1 - Len(nav.history)
                                  ELSE 0,
         FALSE, TRUE, NoAnswer)

LastSettle(op, c, result) ==
  LastOp(op, EmptyString, FALSE, 0, c.isCancelled, result.ok,
         IF op = "textSettle" THEN result.value ELSE NoAnswer)

PushOps == { "handleSearch", "onWordClick", "handleRandom" }

SettleOps == { "artSettle", "textSettle" }

-----------------------------------------------------------------------------
(* The state machine *)

Init ==
  /\ history = << >>
  /\ historyIndex = -1
  /\ currentTopic = EmptyString
  /\ explanation = EmptyString
  /\ suggestion = EmptyString
  /\ links = << >>
  /\ isLoading = FALSE
  /\ error = Null
  /\ asciiArt = Null
  /\ generationTime = Null
  /\ usedLinks = {}
  /\ apiKey \in BOOLEAN
  /\ cycles = << >>
  /\ outcome = NoOutcome
  /\ last = LastNav("init", EmptyString, Nav)
  /\ renders = << >>

\* An event handler has set the navigation state to nav and the display state
\* to d.  React renders, and when currentTopic has changed it runs the
\* cleanup of the effect's last run and then the effect again.
Commit(nav, d) ==
  /\ Len(nav.history) <= MaxHistory
  /\ history' = nav.history
  /\ historyIndex' = nav.historyIndex
  /\ currentTopic' = nav.currentTopic
  /\ IF nav.currentTopic # currentTopic
       THEN LET cleaned == Collect(EffectCleanup(cycles))
            IN  IF nav.currentTopic = EmptyString
                  THEN /\ cycles' = cleaned
                       /\ Render(d)
                       /\ outcome' = NoOutcome
                  ELSE /\ Len(cleaned) < MaxCycles
                       /\ cycles' = Append(cleaned,
                                           NewCycle(nav.currentTopic, apiKey))
                       /\ Render(fetchStart(d))
                       /\ outcome' = NoOutcome
       ELSE /\ cycles' = cycles
            /\ Render(d)
            /\ outcome' = outcome
  /\ UNCHANGED apiKey

\* the search bar submits a topic: handleSearch
Search ==
  \E topic \in SearchInputs :
    /\ Commit(changeTopic(Nav, topic), Display)
    /\ last' = LastNav("handleSearch", topic, changeTopic(Nav, topic))

\* a click on the button of a word: onWordClick
ClickWord ==
  \E word \in ClickableWords(Display) :
    /\ Commit(changeTopic(Nav, word), Display)
    /\ last' = LastNav("onWordClick", word, changeTopic(Nav, word))

\* the random button: handleRandom, with the index Math.random picks
Random ==
  \E r \in 0..(Len(UNIQUE_WORDS) - 1) :
    LET randomWord == randomWordFor(currentTopic, r)
    IN  /\ Commit(changeTopic(Nav, randomWord), handleRandomReset(Display))
        /\ last' = LastNav("handleRandom", randomWord,
                           changeTopic(Nav, randomWord))

\* the Previous button
Previous ==
  /\ Commit(handlePrevious(Nav), Display)
  /\ last' = LastNav("handlePrevious", EmptyString, handlePrevious(Nav))

\* the Next button
Next_ ==
  /\ Commit(handleNext(Nav), Display)
  /\ last' = LastNav("handleNext", EmptyString, handleNext(Nav))

\* the art promise of the k-th closure settles, or its loop tries again
ArtSettle ==
  \E k \in 1..Len(cycles) :
    \E gen \in { generateAsciiArt(cycles[k].art # "rejected",
                                  cycles[k].attempt, resp) :
                   resp \in ArtResponses } :
    LET c == cycles[k]
    IN  /\ c.art # "done"
        /\ IF gen.settled
             THEN /\ cycles' = Collect([ cycles EXCEPT ![k].art = "done" ])
                  /\ Render(artHandlers(c, Display, gen.result))
                  /\ outcome' = Settled(c, "art",
                                        [ ok |-> gen.result.ok,
                                          value |-> gen.result.value ])
                  /\ last' = LastSettle("artSettle", c, gen.result)
             ELSE /\ cycles' = [ cycles EXCEPT ![k].attempt = @ + 1,
                                               ![k].artCalls = @ + 1 ]
                  /\ UNCHANGED << displayVars, outcome, renders >>
                  /\ last' = LastSettle("artRetry", c, gen.result)
        /\ UNCHANGED << navVars, apiKey >>

\* the text promise of the k-th closure settles and its await resumes
TextSettle ==
  \E k \in 1..Len(cycles) :
    \E result \in { getStructuredAnswer(cycles[k].topic,
                                        cycles[k].text # "rejected", resp) :
                      resp \in TextResponses } :
    \E elapsed \in ElapsedTimes :
      LET c == cycles[k]
      IN  /\ c.text # "done"
          /\ cycles' = Collect([ cycles EXCEPT ![k].text = "done" ])
          /\ Render(textHandlers(c, Display, result, elapsed))
          /\ outcome' = Settled(c, "text",
                                [ result |-> result, elapsed |-> elapsed ])
          /\ last' = LastSettle("textSettle", c, result)
          /\ UNCHANGED << navVars, apiKey >>

Next ==
  \/ Search
  \/ ClickWord
  \/ Random
  \/ Previous
  \/ Next_
  \/ ArtSettle
  \/ TextSettle

Spec == Init /\ [][Next]_vars

\* what a step of TextSettle does to cycles; no other action does it
TextSettled ==
  \E k \in 1..Len(cycles) :
    /\ cycles[k].text # "done"
    /\ cycles' = Collect([ cycles EXCEPT ![k].text = "done" ])

\* what a settling step of ArtSettle does to cycles; no other action does it
ArtSettled ==
  \E k \in 1..Len(cycles) :
    /\ cycles[k].art # "done"
    /\ cycles' = Collect([ cycles EXCEPT ![k].art = "done" ])

\* Every promise settles: a backend call that was issued returns or throws,
\* and a promise rejected before any call runs its handlers.  The steps of
\* TextSettle and ArtSettle are named by their effect on cycles; a promise
\* that is pending can always settle.
LiveSpec ==
  /\ Init
  /\ [][Next]_vars
  /\ WF_cycles(ArtSettled)
  /\ WF_cycles(TextSettled)

-----------------------------------------------------------------------------
(* One ContentDisplay on its own: the props it is given, and what it returns *)

\* the longest content
MaxText == 3

\* the most links
MaxLinks == 2

\* a stop word in lower case and one in upper case, a word that is none,
\* whitespace and punctuation
TextCharacters == { "a", "I", "x", " ", "." }

Texts == UNION { [ 1..n -> TextCharacters ] : n \in 0..MaxText }

\* a title, a longer title that contains it, and a second title for the
\* url of the first
LinkCandidates ==
  { Link(<< "x" >>, "u1"), Link(<< "x", "." >>, "u2"), Link(<< "a" >>, "u1") }

LinkLists == UNION { [ 1..n -> LinkCandidates ] : n \in 0..MaxLinks }

UsedSets == SUBSET { "u1", "u2" }

\* a ContentDisplay is mounted with content, links and usedLinks
RenderInit ==
  /\ history = << >>
  /\ historyIndex = -1
  /\ currentTopic = EmptyString
  /\ explanation \in Texts
  /\ suggestion = EmptyString
  /\ links \in LinkLists
  /\ isLoading = FALSE
  /\ error = Null
  /\ asciiArt = Null
  /\ generationTime = Null
  /\ usedLinks \in UsedSets
  /\ apiKey = TRUE
  /\ cycles = << >>
  /\ outcome = NoOutcome
  /\ last = LastNav("mount", EmptyString, Nav)
  /\ renders = << >>

\* it renders
RenderPane ==
  /\ renders = << >>
  /\ renders' = << [ explanation |-> ContentDisplay(explanation, links,
                                                     usedLinks),
                      suggestion |-> NoContent ] >>
  /\ UNCHANGED << navVars, displayVars, apiKey, cycles, outcome, last >>

RenderNext == RenderPane

RenderSpec == RenderInit /\ [][RenderNext]_vars

-----------------------------------------------------------------------------
(* createFallbackArt on its own: a topic of any length, and its fallback art *)

\* the longest topic
MaxTopic == 22

\* a topic whose characters all differ
TopicCharacters == LowerCaseLetters

ArtInit ==
  /\ history = << >>
  /\ historyIndex = -1
  /\ currentTopic = EmptyString
  /\ explanation = EmptyString
  /\ suggestion = EmptyString
  /\ links = << >>
  /\ isLoading = FALSE
  /\ error = Null
  /\ asciiArt = Null
  /\ generationTime = Null
  /\ usedLinks = {}
  /\ apiKey = TRUE
  /\ cycles = << >>
  /\ outcome = NoOutcome
  /\ last = LastNav("init", EmptyString, Nav)
  /\ renders = << >>

\* the topic grows by a character
LongerTopic ==
  /\ Len(currentTopic) < MaxTopic
  /\ currentTopic' = Append(currentTopic,
                             TopicCharacters[Len(currentTopic) + 1])
  /\ last' = LastNav("topic", EmptyString, Nav)
  /\ UNCHANGED << history, historyIndex, displayVars, apiKey, cycles,
                   outcome, renders >>

\* the .catch of the art promise makes the fallback art of the topic
FallbackArt ==
  /\ asciiArt' = Some(createFallbackArt(currentTopic))
  /\ last' = LastNav("createFallbackArt", EmptyString, Nav)
  /\ UNCHANGED << navVars, explanation, suggestion, links, isLoading, error,
                   generationTime, usedLinks, apiKey, cycles, outcome,
                   renders >>

ArtNext ==
  \/ LongerTopic
  \/ FallbackArt

ArtSpec == ArtInit /\ [][ArtNext]_vars

-----------------------------------------------------------------------------
(* The claims *)

\* the closure of the effect's last run, while it is not cancelled
HasCurrent == cycles # << >> /\ ~cycles[Len(cycles)].isCancelled

Current == cycles[Len(cycles)]

\* the art a successful art request can return
GeneratedArt ==
  { [ art |-> resp.art ] : resp \in { r \in ArtResponses : artAttempt(r).ok } }

\* every error and every art on the page is one made for the current topic
DisplayIsOfCurrentTopic ==
  /\ error # Null /\ error[1].text = "Could not generate content for"
       => error[1].topic = currentTopic
  /\ asciiArt # Null
       => asciiArt[1] \in GeneratedArt \cup { createFallbackArt(currentTopic) }

\* C1: when a request issued by a closure that has been cancelled by a topic
\* change settles, resolved or rejected, the step changes none of
\* explanation, suggestion, links, art, error, loading flag and generation
\* time; and what the page shows is always of the current topic.
C1_StaleResultsDiscarded ==
  /\ [][ last'.op \in SettleOps /\ last'.stale
           => UNCHANGED << explanation, suggestion, links, asciiArt, error,
                           isLoading, generationTime >> ]_vars
  /\ []DisplayIsOfCurrentTopic

\* a text request of a cancelled closure has resolved while the current
\* closure is still loading
C1_Witness ==
  /\ last.op = "textSettle" /\ last.stale /\ last.ok
  /\ HasCurrent /\ isLoading /\ explanation = EmptyString

\* C2: the cursor is an integer of -1 .. length(history)-1, and it is -1 only
\* while the history is empty.
C2_CursorInRange ==
  /\ historyIndex \in -1..(Len(history) - 1)
  /\ historyIndex = -1 => history = << >>

\* back has moved the cursor to the first entry of a full history
C2_Witness ==
  /\ last.op = "handlePrevious" /\ last.changed
  /\ historyIndex = 0 /\ Len(history) = MaxHistory

\* the topic given to changeTopic is one it ignores
IgnoredTopic(topic, current) ==
  \/ trim(topic) = EmptyString
  \/ toLowerCase(trim(topic)) = toLowerCase(current)

\* C3: a push of a topic that is empty after trimming, or equal to the current
\* topic but for case, changes neither history, cursor nor current topic,
\* and starts no fetch cycle.
C3_IgnoredPushIsNoOp ==
  [][ last'.op \in PushOps /\ IgnoredTopic(last'.arg, currentTopic)
        => UNCHANGED << navVars, cycles, displayVars, outcome >> ]_vars

\* a topic that differs from the current one only in case and in the spaces
\* around it has been pushed
C3_Witness ==
  /\ last.op = "handleSearch"
  /\ last.arg # currentTopic /\ trim(last.arg) # currentTopic
  /\ toLowerCase(trim(last.arg)) = toLowerCase(currentTopic)
  /\ Len(history) = 2

\* C4: a push of any other topic makes the history the old entries up to the
\* cursor followed by the trimmed topic, puts the cursor on the new last
\* entry and makes the trimmed topic current.
C4_PushTruncatesAndAppends ==
  [][ last'.op \in PushOps /\ ~IgnoredTopic(last'.arg, currentTopic)
        => /\ history' = Append(SubSeq(history, 1, historyIndex + 1),
                                trim(last'.arg))
           /\ historyIndex' = Len(history') - 1
           /\ currentTopic' = trim(last'.arg) ]_vars

\* after [A,B,C] and back twice, a push has left [A,D] with the cursor on D
C4_Witness ==
  /\ last.op = "handleSearch" /\ last.dropped = 2
  /\ Len(history) = 2 /\ historyIndex = 1
  /\ history[2] = trim(last.arg) /\ history[2] # last.arg

\* C5: back and forward move the cursor by one and make history[cursor]
\* current when there is an entry in that direction, change nothing
\* otherwise, and never change the history.
C5_BackForwardStep ==
  [][ /\ last'.op = "handlePrevious"
        => /\ history' = history
           /\ IF historyIndex > 0
                THEN /\ historyIndex' = historyIndex - 1
                     /\ currentTopic' = history[historyIndex' + 1]
                ELSE UNCHANGED << navVars, cycles, displayVars, outcome >>
      /\ last'.op = "handleNext"
        => /\ history' = history
           /\ IF historyIndex < Len(history) - 1
                THEN /\ historyIndex' = historyIndex + 1
                     /\ currentTopic' = history[historyIndex' + 1]
                ELSE UNCHANGED << navVars, cycles, displayVars, outcome >>
    ]_vars

\* back has moved the cursor from the last entry to the one before it
C5_Witness ==
  /\ last.op = "handlePrevious" /\ last.changed
  /\ historyIndex = Len(history) - 2
  /\ currentTopic = history[historyIndex + 1]

\* C6: from a state with cursor > 0, back and then forward give the state
\* before the back: the same cursor, current topic and history; with
\* cursor <= 0 back changes nothing.
C6_BackThenForwardRestores ==
  [][ last'.op = "handlePrevious"
        => IF historyIndex > 0
             THEN handleNext(Nav') = Nav /\ Nav' # Nav
             ELSE UNCHANGED navVars ]_vars

\* forward has moved the cursor back to the last entry, which only a back
\* had left
C6_Witness ==
  /\ last.op = "handleNext" /\ last.changed
  /\ historyIndex = Len(history) - 1 /\ Len(history) = MaxHistory

\* C7: from the start of a fetch cycle until its first result, explanation,
\* suggestion, links, art, error, generation time and the used links are
\* empty or null and the page is loading: nothing of the previous topic is
\* left.
C7_ClearedOnLoading ==
  HasCurrent /\ Current.art # "done" /\ Current.text # "done"
    => /\ isLoading
       /\ explanation = EmptyString /\ suggestion = EmptyString
       /\ links = << >> /\ asciiArt = Null /\ error = Null
       /\ generationTime = Null /\ usedLinks = {}

\* a topic change has just started a cycle over a page that showed something
C7_Witness ==
  /\ last.op \in PushOps \cup { "handlePrevious", "handleNext" }
  /\ last.changed /\ last.wasSet
  /\ HasCurrent /\ isLoading /\ error = Null /\ usedLinks = {}

\* C8: when the text request of the current closure settles, either it
\* resolved, and explanation, suggestion and links are the returned ones and
\* error is null, or it was rejected, and error is a non-empty message and
\* explanation, suggestion and links are empty; loading is false in both.
C8_TextOutcome ==
  [][ last'.op = "textSettle" /\ ~last'.stale
        => /\ isLoading' = FALSE
           /\ IF last'.ok
                THEN /\ explanation' = last'.answer.explanation
                     /\ suggestion' = last'.answer.suggestion
                     /\ links' = last'.answer.links
                     /\ explanation' # EmptyString
                     /\ error' = Null
                ELSE /\ error' # Null
                     /\ ~IsEmptyMessage(error'[1])
                     /\ explanation' = EmptyString
                     /\ suggestion' = EmptyString
                     /\ links' = << >> ]_vars

\* the text request of the current closure has been rejected by the backend
C8_Witness ==
  /\ last.op = "textSettle" /\ ~last.stale /\ ~last.ok
  /\ apiKey /\ error # Null /\ ~isLoading

\* C9: a rejected art request leaves error, explanation, suggestion, links
\* and the loading flag alone and, in the current closure, sets the art to
\* the fallback box of the current topic; a rejected text request leaves
\* the art alone, and after it the art request still sets the art.
C9_FailuresIsolated ==
  [][ /\ last'.op = "artSettle" /\ ~last'.ok
        => /\ UNCHANGED << error, explanation, suggestion, links, isLoading >>
           /\ ~last'.stale
                => asciiArt' = Some(createFallbackArt(currentTopic))
      /\ last'.op = "textSettle" /\ ~last'.ok
        => asciiArt' = asciiArt
      /\ last'.op = "artSettle" /\ ~last'.stale /\ error # Null
        => /\ asciiArt' # Null
           /\ asciiArt'[1] \in GeneratedArt \cup
                                 { createFallbackArt(currentTopic) }
    ]_vars

\* the art request has been rejected after the text request had resolved
C9_Witness ==
  /\ last.op = "artSettle" /\ ~last.stale /\ ~last.ok
  /\ asciiArt = Some(createFallbackArt(currentTopic))
  /\ explanation # EmptyString /\ error = Null /\ ~isLoading

\* the page at the start of a fetch cycle
ClearedDisplay ==
  [ explanation |-> EmptyString, suggestion |-> EmptyString, links |-> << >>,
    isLoading |-> TRUE, error |-> Null, asciiArt |-> Null,
    generationTime |-> Null, usedLinks |-> {} ]

\* C10: once both requests of the current closure have settled, the page is
\* the one that the art result followed by the text result gives, whichever
\* of the two settled first.
C10_OrderIndependent ==
  HasCurrent /\ outcome.art # Null /\ outcome.text # Null
    => Display =
         Rendered(textHandlers(Current,
                    artHandlers(Current, ClearedDisplay,
                                [ ok |-> outcome.art[1].ok,
                                  value |-> outcome.art[1].value,
                                  message |-> Message("", << >>, "") ]),
                    outcome.text[1].result, outcome.text[1].elapsed))

\* the art request has settled after the text request
C10_Witness ==
  /\ last.op = "artSettle" /\ ~last.stale
  /\ HasCurrent /\ outcome.art # Null /\ outcome.text # Null
  /\ outcome.text[1].result.ok /\ ~outcome.art[1].ok

\* C11: when every promise settles and the topic changes only finitely often,
\* every state in which the page is loading is followed by one in which it
\* is not.
C11_LoadingEnds ==
  <>[][currentTopic' = currentTopic]_vars => (isLoading ~> ~isLoading)

\* the text request of a cycle that the random button started has ended the
\* loading
C11_Witness ==
  /\ last.op = "textSettle" /\ ~last.stale /\ ~isLoading
  /\ currentTopic = UNIQUE_WORDS[1] /\ Len(history) > 1

\* C12: when the text request of the current closure settles, resolved or
\* rejected, the generation time is set to the elapsed time, which is not
\* null.
C12_GenerationTimeRecorded ==
  [][ last'.op = "textSettle" /\ ~last'.stale
        => /\ generationTime' # Null
           /\ generationTime' = Some(outcome'.text[1].elapsed) ]_vars

\* a rejected text request has recorded an elapsed time of 0
C12_Witness ==
  /\ last.op = "textSettle" /\ ~last.stale /\ ~last.ok
  /\ generationTime = Some(0) /\ error # Null

\* what the pane of RenderSpec has returned
Pane == renders[1].explanation

\* the text a reader sees in the elements, in order
RECURSIVE VisibleText(_)
VisibleText(elements) ==
  IF elements = << >> THEN EmptyString
  ELSE Head(elements).text \o VisibleText(Tail(elements))

\* the positions of the <a> elements
Anchors(elements) ==
  { i \in 1..Len(elements) : elements[i].kind = "a" }

\* C13: for every content, every list of links and every set of used urls,
\* the texts of the rendered elements (plain text and whitespace, anchor
\* titles, words of buttons and the punctuation after them), concatenated in
\* order, are the content.
C13_RoundTrip ==
  renders # << >> => VisibleText(Pane.elements) = explanation

\* a content with an anchor in the middle, a button and punctuation has been
\* rendered
C13_Witness ==
  /\ renders # << >>
  /\ \E i \in Anchors(Pane.elements) : 1 < i /\ i < Len(Pane.elements)
  /\ \E i \in 1..Len(Pane.elements) : Pane.elements[i].kind = "button"

\* the 0-based offset in the content of element or part number i
RECURSIVE Offset(_, _)
Offset(elements, i) ==
  IF i = 1 THEN 0
  ELSE Offset(elements, i - 1) + Len(elements[i - 1].text)

\* title is in text at the 0-based offset o
OccursAt(title, text, o) ==
  o + Len(title) <= Len(text) /\ SubSeq(text, o + 1, o + Len(title)) = title

Occurs(title, text) == \E o \in 0..Len(text) : OccursAt(title, text, o)

\* the positions in links of the links the first pass does not skip and
\* whose title is in the content
Applicable ==
  { p \in 1..Len(links) :
      links[p].url \notin usedLinks /\ Occurs(links[p].title, explanation) }

\* the applicable link the first pass meets first: none is longer, and none
\* as long comes before it in links
FirstApplicable(p) ==
  /\ p \in Applicable
  /\ \A q \in Applicable \ { p } :
        \/ Len(links[q].title) < Len(links[p].title)
        \/ Len(links[q].title) = Len(links[p].title) /\ q > p

\* element i is the <a> of link at the offset o of the content
IsAnchorOf(elements, i, link, o) ==
  /\ i \in Anchors(elements)
  /\ elements[i].text = link.title /\ elements[i].url = link.url
  /\ Offset(elements, i) = o

\* C14: the links are applied longest title first and only to what is still
\* plain text: the longest applicable link is embedded whole at the first
\* occurrence of its title, every anchor is the whole title of a link that
\* is not used, and a shorter link whose title occurs only inside that
\* longest title's anchor is not embedded.
C14_LongestFirst ==
  renders # << >>
    => /\ \A i \in Anchors(Pane.elements) :
             \E p \in Applicable :
               IsAnchorOf(Pane.elements, i, links[p], Offset(Pane.elements, i))
       /\ \A p \in 1..Len(links) :
             FirstApplicable(p)
               => \E i \in Anchors(Pane.elements), o \in 0..Len(explanation) :
                    /\ IsAnchorOf(Pane.elements, i, links[p], o)
                    /\ OccursAt(links[p].title, explanation, o)
                    /\ \A o2 \in 0..(o - 1) :
                          ~OccursAt(links[p].title, explanation, o2)
                    /\ \A q \in 1..Len(links) :
                          /\ Len(links[q].title) < Len(links[p].title)
                          /\ ~Occurs(links[q].title,
                                     SubSeq(explanation, 1, o))
                          /\ ~Occurs(links[q].title,
                                     SubSeq(explanation,
                                            o + Len(links[p].title) + 1,
                                            Len(explanation)))
                          => \A j \in Anchors(Pane.elements) :
                               ~IsAnchorOf(Pane.elements, j, links[q],
                                           Offset(Pane.elements, j))

\* a content that is a longer title has been rendered with the link of a
\* shorter title inside it coming first in links: one anchor, the longer
C14_Witness ==
  /\ renders # << >> /\ usedLinks = {}
  /\ Len(links) = 2
  /\ Len(links[1].title) < Len(links[2].title)
  /\ Occurs(links[1].title, links[2].title)
  /\ explanation = links[2].title
  /\ Len(Pane.elements) = 1
  /\ IsAnchorOf(Pane.elements, 1, links[2], 0)

\* the anchors of elements or parts: offset in the content, title, url
AnchorSet(elements) ==
  { << Offset(elements, i), elements[i].text, elements[i].url >> :
      i \in Anchors(elements) }

\* the content parts and the calls of onLinkUsed after the first j links of
\* the first pass
LoopAfter(j) ==
  EmbedLinks(<< TextPart(explanation) >>, << >>,
             SubSeq(sortedLinks(links), 1, j), usedLinks, 1)

\* title is in the content at offset o, inside one string part of parts
FitsAt(parts, title, o) ==
  /\ OccursAt(title, explanation, o)
  /\ \E k \in 1..Len(parts) :
        /\ parts[k].kind = "text"
        /\ Offset(parts, k) <= o
        /\ o + Len(title) <= Offset(parts, k) + Len(parts[k].text)

\* what iteration j of the first pass adds: the anchor of its link at the
\* first place where the title fits, if the link is not used and there is
\* such a place
Embedded(j) ==
  LET link  == sortedLinks(links)[j]
      parts == LoopAfter(j - 1).parts
      fits  == { o \in 0..Len(explanation) : FitsAt(parts, link.title, o) }
  IN  IF link.url \in usedLinks \/ fits = {} THEN {}
      ELSE { << CHOOSE o \in fits : \A o2 \in fits : o <= o2,
                link.title, link.url >> }

\* C15: in one render of one content every link adds at most one anchor, at
\* the first occurrence of its title in the first string part that contains
\* it, and onLinkUsed is called once for it; a link that is used, or whose
\* title is in no string part that is left, adds no anchor and causes no
\* call.
C15_AtMostOncePerLink ==
  renders # << >> /\ explanation # EmptyString
    => /\ \A j \in 1..Len(links) :
             /\ AnchorSet(LoopAfter(j).parts)
                   = AnchorSet(LoopAfter(j - 1).parts) \cup Embedded(j)
             /\ Cardinality(AnchorSet(LoopAfter(j).parts))
                   = Cardinality(AnchorSet(LoopAfter(j - 1).parts))
                       + Cardinality(Embedded(j))
             /\ LoopAfter(j).calls
                   = LoopAfter(j - 1).calls
                       \o (IF Embedded(j) = {} THEN << >>
                           ELSE << sortedLinks(links)[j].url >>)
       /\ AnchorSet(Pane.elements) = AnchorSet(LoopAfter(Len(links)).parts)
       /\ Cardinality(Anchors(Pane.elements))
             = Cardinality(AnchorSet(Pane.elements))
       /\ Pane.calls = LoopAfter(Len(links)).calls

\* a content in which the title of one link occurs twice and the title of
\* the other link not at all has been rendered: one anchor, at the first
\* occurrence, and one call
C15_Witness ==
  /\ renders # << >> /\ usedLinks = {} /\ Len(links) = 2
  /\ explanation = << "x", " ", "x" >>
  /\ links[1].title = << "x" >> /\ ~Occurs(links[2].title, explanation)
  /\ AnchorSet(Pane.elements) = { << 0, links[1].title, links[1].url >> }
  /\ Pane.calls = << links[1].url >>
  /\ \E i \in 1..Len(Pane.elements) :
        Pane.elements[i].kind = "button" /\ Pane.elements[i].text = << "x" >>

\* the urls of the <a> elements
AnchorUrls(elements) == { elements[i].url : i \in Anchors(elements) }

\* C16: in no render of App is a url the href of an anchor in the
\* explanation pane and of an anchor in the suggestion pane.
C16_NoUrlInBothPanes ==
  \A r \in 1..Len(renders) :
    AnchorUrls(renders[r].explanation.elements)
      \cap AnchorUrls(renders[r].suggestion.elements) = {}

\* the tokens of a string part that starts at offset base of the content:
\* its longest runs of characters that are not whitespace
TokensOf(text, base) ==
  { [ at |-> base + s - 1, token |-> SubSeq(text, s, e) ] :
      << s, e >> \in
        { se \in (1..Len(text)) \X (1..Len(text)) :
            /\ se[1] <= se[2]
            /\ \A i \in se[1]..se[2] : text[i] \notin Whitespace
            /\ se[1] = 1 \/ text[se[1] - 1] \in Whitespace
            /\ se[2] = Len(text) \/ text[se[2] + 1] \in Whitespace } }

\* the tokens of the string parts the first pass leaves
Tokens ==
  LET parts == LoopAfter(Len(links)).parts
  IN  UNION { TokensOf(parts[k].text, Offset(parts, k)) :
                k \in { i \in 1..Len(parts) : parts[i].kind = "text" } }

\* how many of . , ! ? ; : end the token, and how many begin it
TrailingRun(token) ==
  CHOOSE n \in 0..Len(token) :
    /\ \A i \in (Len(token) - n + 1)..Len(token) : token[i] \in Punctuation
    /\ n = Len(token) \/ token[Len(token) - n] \notin Punctuation

LeadingRun(token) ==
  CHOOSE n \in 0..Len(token) :
    /\ \A i \in 1..n : token[i] \in Punctuation
    /\ n = Len(token) \/ token[n + 1] \notin Punctuation

\* the token without the punctuation that ends it
WordOf(token) == SubSeq(token, 1, Len(token) - TrailingRun(token))

\* the token without the punctuation that begins or ends it
BareWordOf(token) ==
  SubSeq(token, LeadingRun(token) + 1, Len(token) - TrailingRun(token))

\* the buttons rendered for the characters of the token t
ButtonsIn(elements, t) ==
  { i \in 1..Len(elements) :
      /\ elements[i].kind = "button"
      /\ Offset(elements, i) \in t.at..(t.at + Len(t.token) - 1) }

\* the token t is rendered as plain text
IsPlain(elements, t) ==
  /\ ButtonsIn(elements, t) = {}
  /\ \E i \in 1..Len(elements) :
        elements[i] = Plain(t.token) /\ Offset(elements, i) = t.at

\* C17, as amended: a token which, without the . , ! ? ; : that end it, is
\* a stop word in any case is rendered as plain text, never as a button.
C17_StopWordsPlain ==
  renders # << >>
    => \A t \in Tokens :
         toLowerCase(WordOf(t.token)) \in STOP_WORDS
           => IsPlain(Pane.elements, t)

\* C17, as claimed: a token which, without the . , ! ? ; : that begin or
\* end it, is a stop word in any case is never rendered as a button.
C17_StopWordsAnyPunctuation ==
  renders # << >>
    => \A t \in Tokens :
         toLowerCase(BareWordOf(t.token)) \in STOP_WORDS
           => ButtonsIn(Pane.elements, t) = {}

\* an upper-case stop word followed by punctuation has been rendered plain,
\* after whitespace
C17_Witness ==
  /\ renders # << >> /\ links = << >>
  /\ explanation = << " ", "I", "." >>
  /\ \E t \in Tokens :
        /\ t.token = << "I", "." >> /\ t.at = 1
        /\ IsPlain(Pane.elements, t)

\* C18: a token that is rendered as clickable is a button whose text, which
\* is also what a click passes to onWordClick, is the token without the
\* longest run of . , ! ? ; : that ends it, in the case it is written in,
\* followed at once by that run as plain text; a token that is only such
\* punctuation is plain text; and every button is the button of a token.
C18_PunctuationStripped ==
  renders # << >>
    => /\ \A t \in Tokens :
             LET word == WordOf(t.token)
                 run  == SubSeq(t.token, Len(word) + 1, Len(t.token))
             IN  IF word = EmptyString THEN IsPlain(Pane.elements, t)
                 ELSE IF toLowerCase(word) \in STOP_WORDS THEN TRUE
                 ELSE \E i \in 1..(Len(Pane.elements) - 1) :
                        /\ ButtonsIn(Pane.elements, t) = { i }
                        /\ Pane.elements[i] = Button(word)
                        /\ Offset(Pane.elements, i) = t.at
                        /\ Pane.elements[i + 1] = Plain(run)
                        /\ word \in ButtonWords(Pane.elements)
       /\ \A i \in 1..Len(Pane.elements) :
             Pane.elements[i].kind = "button"
               => \E t \in Tokens :
                    /\ t.at = Offset(Pane.elements, i)
                    /\ WordOf(t.token) = Pane.elements[i].text

\* a word followed by two punctuation characters has been rendered: the
\* button of the word, then both characters as plain text
C18_Witness ==
  /\ renders # << >>
  /\ explanation = << "x", ".", "." >>
  /\ \E i \in 1..(Len(Pane.elements) - 1) :
        /\ Pane.elements[i] = Button(<< "x" >>)
        /\ Pane.elements[i + 1] = Plain(<< ".", "." >>)

\* the lines of a text with two line breaks
LinesOf(text) ==
  LET breaks == { i \in 1..Len(text) : text[i] = "\n" }
      first  == CHOOSE i \in breaks : \A j \in breaks : i <= j
      second == CHOOSE i \in breaks : \A j \in breaks : i >= j
  IN  << SubSeq(text, 1, first - 1), SubSeq(text, first + 1, second - 1),
         SubSeq(text, second + 1, Len(text)) >>

\* the topic as the box shows it
DisplayedTopic(topic) ==
  IF Len(topic) <= 20 THEN topic
  ELSE [ i \in 1..20 |-> IF i <= 17 THEN topic[i] ELSE "." ]

\* C19: the fallback art of a topic is three lines of one length: a corner,
\* N horizontal dashes and a corner; a vertical bar, a space, the displayed
\* topic, a space and a vertical bar; and the bottom border like the top,
\* where N is the length of the displayed topic plus 2, and the displayed
\* topic is the topic when it has at most 20 characters and else its first
\* 17 characters and "...", 20 characters in all.
C19_FallbackBox ==
  last.op = "createFallbackArt"
    => LET art   == asciiArt[1].art
           shown == DisplayedTopic(currentTopic)
           N     == Len(shown) + 2
           lines == LinesOf(art)
       IN  /\ Cardinality({ i \in 1..Len(art) : art[i] = "\n" }) = 2
           /\ Len(shown) <= 20
           /\ \A l \in 1..3 : Len(lines[l]) = N + 2
           /\ lines[1] = [ i \in 1..(N + 2) |->
                             IF i = 1 THEN BoxDownRight
                             ELSE IF i = N + 2 THEN BoxDownLeft
                             ELSE BoxHorizontal ]
           /\ lines[2] = << BoxVertical, " " >> \o shown
                            \o << " ", BoxVertical >>
           /\ lines[3] = [ i \in 1..(N + 2) |->
                             IF i = 1 THEN BoxUpRight
                             ELSE IF i = N + 2 THEN BoxUpLeft
                             ELSE BoxHorizontal ]

\* the fallback art of a topic of 21 characters has been made
C19_Witness ==
  /\ last.op = "createFallbackArt"
  /\ Len(currentTopic) = 21
  /\ Len(LinesOf(asciiArt[1].art)[2]) = 24

\* C20: no closure ever has more than one backend request made for its
\* text, and without the API key none is made for its text or its art;
\* without the key the text promise of the current closure ends the loading
\* with a non-empty error and no content, and its art promise is rejected
\* at once and gives the fallback art of the topic.
C20_MissingKeyFailsFast ==
  /\ [](\A k \in 1..Len(cycles) :
          /\ cycles[k].textCalls <= 1
          /\ ~apiKey => cycles[k].textCalls = 0 /\ cycles[k].artCalls = 0)
  /\ [][ ~apiKey
          => /\ last'.op # "artRetry"
             /\ last'.op \in SettleOps => ~last'.ok
             /\ last'.op = "textSettle" /\ ~last'.stale
                  => /\ error' # Null /\ ~IsEmptyMessage(error'[1])
                     /\ error'[1].text # ""
                     /\ explanation' = EmptyString
                     /\ ~isLoading'
             /\ last'.op = "artSettle" /\ ~last'.stale
                  => asciiArt' = Some(createFallbackArt(currentTopic)) ]_vars

\* without the key, both promises of the current closure have been
\* rejected: the page shows the error and the fallback art
C20_Witness ==
  /\ ~apiKey
  /\ last.op = "artSettle" /\ ~last.stale /\ ~last.ok
  /\ error # Null /\ ~isLoading
  /\ asciiArt = Some(createFallbackArt(currentTopic))
  /\ \A k \in 1..Len(cycles) : cycles[k].artCalls = 0 /\ cycles[k].textCalls = 0

\* the closure of the effect's last run, when it has not been cleaned up
IsCurrentCycle(c) == ~c.isCancelled /\ c.topic = currentTopic

\* C21: the current topic is history[cursor] when the cursor is at least 0
\* and the empty string when it is -1, and the only closure that is not
\* cancelled fetches the current topic; an error or fallback art on the page
\* names the current topic.
C21_TopicIsCursorEntry ==
  /\ historyIndex \in -1..(Len(history) - 1)
  /\ IF historyIndex >= 0
       THEN currentTopic = history[historyIndex + 1]
       ELSE currentTopic = EmptyString
  /\ \A k \in 1..Len(cycles) :
       ~cycles[k].isCancelled => k = Len(cycles) /\ IsCurrentCycle(cycles[k])
  /\ DisplayIsOfCurrentTopic

\* forward has moved the cursor to the middle entry of three
C21_Witness ==
  /\ last.op = "handleNext" /\ last.changed
  /\ Len(history) = 3 /\ historyIndex = 1
  /\ currentTopic = history[2]
  /\ IsCurrentCycle(cycles[Len(cycles)])

\* C22: no two adjacent history entries are equal in lower case, and a back
\* or forward that moves the cursor changes the current topic, cancels the
\* closure of the topic it leaves and starts the fetch of the topic it
\* moves to.
C22_AdjacentEntriesDiffer ==
  /\ [](\A i \in 1..(Len(history) - 1) :
          toLowerCase(history[i]) # toLowerCase(history[i + 1]))
  /\ [][ last'.op \in { "handlePrevious", "handleNext" }
            /\ historyIndex' # historyIndex
          => /\ toLowerCase(currentTopic') # toLowerCase(currentTopic)
             /\ cycles' # << >>
             /\ cycles'[Len(cycles')] = NewCycle(currentTopic', apiKey)
             /\ \A k \in 1..(Len(cycles') - 1) : cycles'[k].isCancelled
             /\ \A k \in 1..Len(cycles) :
                  ~cycles[k].isCancelled /\ InFlight(cycles[k])
                    => \E j \in 1..(Len(cycles') - 1) :
                         cycles'[j] = [ cycles[k] EXCEPT
                                          !.isCancelled = TRUE,
                                          !.topic = EmptyString ]
             /\ isLoading' /\ outcome' = NoOutcome ]_vars

\* back has moved the cursor while the fetch of the topic it left was in
\* flight: that closure is cancelled and the one of the entry before runs
C22_Witness ==
  /\ last.op = "handlePrevious" /\ last.changed
  /\ Len(cycles) = 2
  /\ cycles[1].isCancelled /\ InFlight(cycles[1])
  /\ cycles[2] = NewCycle(history[historyIndex + 1], apiKey)
  /\ toLowerCase(history[historyIndex + 1])
       # toLowerCase(history[historyIndex + 2])

\* C23: the word handleRandom passes to changeTopic is never equal in lower
\* case to the current topic, so every handleRandom appends the word to the
\* history after the cursor, makes it current and starts its fetch; and
\* whenever the page is loading, the closure of the current topic has its
\* text promise pending, whose settling ends the loading.
C23_RandomAlwaysPushes ==
  /\ [](isLoading
          => /\ cycles # << >>
             /\ IsCurrentCycle(cycles[Len(cycles)])
             /\ cycles[Len(cycles)].text # "done")
  /\ [][ last'.op = "handleRandom"
          => /\ toLowerCase(last'.arg) # toLowerCase(currentTopic)
             /\ \E i \in 1..Len(UNIQUE_WORDS) : last'.arg = UNIQUE_WORDS[i]
             /\ history' = Append(SubSeq(history, 1, historyIndex + 1),
                                  last'.arg)
             /\ historyIndex' = Len(history') - 1
             /\ currentTopic' = last'.arg
             /\ isLoading'
             /\ cycles'[Len(cycles')] = NewCycle(last'.arg, apiKey) ]_vars

\* Math.random has picked the word that is current in another case, and
\* handleRandom has pushed the word after it in the list
C23_Witness ==
  /\ last.op = "handleRandom" /\ last.changed
  /\ historyIndex >= 1
  /\ history[historyIndex] = << "x" >>
  /\ currentTopic = UNIQUE_WORDS[findIndex(<< "x" >>) + 2]
  /\ isLoading

\* the panes of a render of App
PaneNames == { "explanation", "suggestion" }

\* C24: when the calls of onLinkUsed of a render have been applied to
\* usedLinks and the panes have rendered again, every url that had an anchor
\* in a pane of an earlier render of the step has an anchor in that pane of
\* the settled render.
C24_AnchorsSurviveReRender ==
  \A r \in 1..Len(renders) :
    \A p \in PaneNames :
      AnchorUrls(renders[r][p].elements)
        \subseteq AnchorUrls(renders[Len(renders)][p].elements)

=============================================================================
